---- MODULE Spec2Model ----
(***************************************************************************)
(* Model of the alya.io HTTP service skeleton:                             *)
(*   src/core/config.py            Settings and its CORS validator         *)
(*   src/utils/logger.py           LogConfig and setup_logging             *)
(*   src/api/middleware/logging.py LoggingMiddleware.dispatch              *)
(*   src/api/app.py                create_app (routes, 404 handler)        *)
(*   src/api/routes/*.py           root and health handlers                *)
(*   src/main.py                   signal handlers and process start       *)
(*                                                                         *)
(* Text is a sequence of one-character strings, so that split, strip and   *)
(* startswith are computed character by character as Python does.          *)
(***************************************************************************)
EXTENDS Integers, Sequences, FiniteSets, TLC

VARIABLES
    \* ---- src/core/config.py
    cfgPc,          \* "unloaded" | "loaded" | "failed"  (Settings() at import)
    envCors,        \* raw value handed to the BACKEND_CORS_ORIGINS validator
    validatorOut,   \* what assemble_cors_origins returned (or raised)
    corsOrigins,    \* settings.BACKEND_CORS_ORIGINS after the load
    \* ---- src/utils/logger.py
    envLogLevel,    \* LOG_LEVEL environment variable, or Unset
    configLogLevel, \* config.LOG_LEVEL attribute after setup_logging
    loggerLevel,    \* level of the "alya.io" logger, or NotConfigured
    calls,          \* levels of the logger calls made so far
    stdout,         \* entries written to standard output
    \* ---- src/main.py
    mainPc,         \* position of the __main__ block
    handlers,       \* signal number -> installed disposition
    sigFrames,      \* stack of running signal_handler invocations
    signals,        \* signals received so far, with the disposition that met them
    exitCode,       \* <<exit status>> of the process, or Running
    \* ---- src/api/middleware/logging.py, src/api/app.py
    req,            \* request slot -> state of its dispatch call
    issued,         \* identifiers uuid4 has returned
    clock           \* time.time()

cfgVars == <<cfgPc, envCors, validatorOut, corsOrigins>>
logVars == <<envLogLevel, configLogLevel, loggerLevel, calls>>
mainVars == <<mainPc, handlers, sigFrames, signals, exitCode>>
reqVars == <<req, issued, clock>>
vars == <<cfgPc, envCors, validatorOut, corsOrigins,
          envLogLevel, configLogLevel, loggerLevel, calls, stdout,
          mainPc, handlers, sigFrames, signals, exitCode,
          req, issued, clock>>

----------------------------------------------------------------------------
\* Bounds of the model

MaxLen == 4         \* longest raw CORS text
MaxList == 2        \* longest raw CORS list
MaxCalls == 2       \* logger calls in the logger specification
MaxRequests == 2    \* request slots (concurrent dispatch calls)
MaxTime == 1        \* last clock reading
MaxSignals == 2     \* signals delivered to the process

----------------------------------------------------------------------------
\* Text helpers (Python str methods)

Chars == {"a", "b", ",", " ", "["}
Whitespace == {" "}

RECURSIVE find(_, _, _)
\* str.find: index of the first c in s at or after i, 0 when there is none
find(s, c, i) ==
    IF i > Len(s) THEN 0
    ELSE IF s[i] = c THEN i
    ELSE find(s, c, i + 1)

RECURSIVE split(_, _)
\* str.split(sep) for a one-character separator
split(s, sep) ==
    LET k == find(s, sep, 1)
    IN  IF k = 0 THEN <<s>>
        ELSE <<SubSeq(s, 1, k - 1)>> \o split(SubSeq(s, k + 1, Len(s)), sep)

RECURSIVE lstrip(_)
lstrip(s) ==
    IF s # <<>> /\ Head(s) \in Whitespace THEN lstrip(Tail(s)) ELSE s

RECURSIVE rstrip(_)
rstrip(s) ==
    IF s # <<>> /\ s[Len(s)] \in Whitespace
    THEN rstrip(SubSeq(s, 1, Len(s) - 1)) ELSE s

\* str.strip()
strip(s) == rstrip(lstrip(s))

\* str.startswith(p)
startswith(s, p) == Len(s) >= Len(p) /\ SubSeq(s, 1, Len(p)) = p

----------------------------------------------------------------------------
\* src/core/config.py

\* Python values: a tag and a payload
Str(s) == [t |-> "str", v |-> s]
List(l) == [t |-> "list", v |-> l]
IntVal == [t |-> "int", v |-> <<>>]
NoneVal == [t |-> "NoneType", v |-> <<>>]
ValidationError == [t |-> "ValidationError", v |-> <<>>]

isinstance(v, types) == v.t \in types

\* BACKEND_CORS_ORIGINS default, config.py:25
DefaultCorsOrigins ==
    List(<<Str(<<"h","t","t","p",":","/","/","l","o","c","a","l","h","o","s","t",":","3","0","0","0">>),
           Str(<<"h","t","t","p",":","/","/","l","o","c","a","l","h","o","s","t",":","8","0","0","0">>)>>)

\* The validator without the strip of each piece
assemble_cors_origins_nostrip(v) ==
    IF isinstance(v, {"str"}) /\ ~startswith(v.v, <<"[">>)
    THEN LET parts == split(v.v, ",")
         IN  List([i \in 1..Len(parts) |-> Str(parts[i])])
    ELSE IF isinstance(v, {"list", "str"}) THEN v
    ELSE ValidationError

\* Settings.assemble_cors_origins (mode="before")
assemble_cors_origins(v) ==
    IF isinstance(v, {"str"}) /\ ~startswith(v.v, <<"[">>)
    THEN LET parts == split(v.v, ",")
         IN  List([i \in 1..Len(parts) |-> Str(strip(parts[i]))])
    ELSE IF isinstance(v, {"list", "str"}) THEN v
    ELSE ValidationError

\* The declared field type List[str] (config.py:25)
IsListOfStr(v) ==
    /\ v.t = "list"
    /\ \A i \in 1..Len(v.v) : v.v[i].t = "str"

RECURSIVE SeqsUpTo(_, _)
SeqsUpTo(S, n) ==
    IF n = 0 THEN {<<>>}
    ELSE LET shorter == SeqsUpTo(S, n - 1)
         IN  shorter \cup {Append(s, x) : s \in {t \in shorter : Len(t) = n - 1}, x \in S}

Texts == SeqsUpTo(Chars, MaxLen)
ListItems == {Str(<<"a">>), Str(<<" ", "b">>), Str(<<>>), IntVal}
RawCorsValues ==
    {Str(s) : s \in Texts} \cup {List(l) : l \in SeqsUpTo(ListItems, MaxList)}
        \cup {IntVal, NoneVal}

Unset == [t |-> "unset", v |-> <<>>]

ConfigInit ==
    /\ cfgPc = "unloaded"
    /\ envCors \in RawCorsValues \cup {Unset}
    /\ validatorOut = Unset
    /\ corsOrigins = Unset

\* settings = Settings(): the validator runs on a supplied value, then the
\* result is validated against List[str]; an unset field takes the default
SettingsLoad ==
    /\ cfgPc = "unloaded"
    /\ IF envCors = Unset
       THEN /\ validatorOut' = Unset
            /\ corsOrigins' = DefaultCorsOrigins
            /\ cfgPc' = "loaded"
       ELSE LET r == assemble_cors_origins(envCors)
            IN  /\ validatorOut' = r
                /\ IF IsListOfStr(r)
                   THEN corsOrigins' = r /\ cfgPc' = "loaded"
                   ELSE corsOrigins' = Unset /\ cfgPc' = "failed"
    /\ UNCHANGED <<envCors, logVars, stdout, mainVars, reqVars>>

----------------------------------------------------------------------------
\* src/utils/logger.py

T_DEBUG == <<"D","E","B","U","G">>
T_INFO == <<"I","N","F","O">>
T_WARNING == <<"W","A","R","N","I","N","G">>
T_ERROR == <<"E","R","R","O","R">>
LevelNames == {T_DEBUG, T_INFO, T_WARNING, T_ERROR}

\* logging's numeric value of a level name
LevelNo(name) ==
    CASE name = T_DEBUG -> 10
      [] name = T_INFO -> 20
      [] name = T_WARNING -> 30
      [] name = T_ERROR -> 40

UpperChar(c) ==
    CASE c = "a" -> "A" [] c = "b" -> "B" [] c = "d" -> "D" [] c = "e" -> "E"
      [] c = "f" -> "F" [] c = "g" -> "G" [] c = "i" -> "I" [] c = "n" -> "N"
      [] c = "o" -> "O" [] c = "r" -> "R" [] c = "u" -> "U" [] c = "w" -> "W"
      [] OTHER -> c

\* str.upper()
upper(s) == [i \in 1..Len(s) |-> UpperChar(s[i])]

\* os.getenv(name, default) for a variable that may be unset
getenv(value, default) == IF value = Unset THEN default ELSE value.v

\* LogConfig(): the class body is evaluated once, top to bottom; the loggers
\* mapping is built from the class-body names LOGGER_NAME and LOG_LEVEL as
\* they are at that moment (logger.py:7-9, 29-31)
LogConfig ==
    LET LOG_LEVEL == T_INFO
    IN  [LOG_LEVEL |-> LOG_LEVEL,
         loggers |-> [level |-> LOG_LEVEL]]

\* dictConfig(config.model_dump()): the level the named logger is given
dictConfig(config) == config.loggers.level

NotConfigured == <<>>

\* Logger.isEnabledFor
isEnabledFor(level, loggerLvl) == LevelNo(level) >= LevelNo(loggerLvl)

\* logger.<level>(msg) on the stream out
emit(out, level, loggerLvl, msg) ==
    IF isEnabledFor(level, loggerLvl)
    THEN Append(out, [levelname |-> level, message |-> msg])
    ELSE out

LogLevelEnvValues ==
    {Str(<<"d","e","b","u","g">>), Str(T_DEBUG), Str(<<"i","n","f","o">>),
     Str(<<"w","a","r","n","i","n","g">>), Str(<<"W","a","r","n","i","n","g">>),
     Str(<<"e","r","r","o","r">>)}

\* setup_logging(), logger.py:34-40
setup_logging ==
    /\ loggerLevel = NotConfigured
    /\ LET config == [LogConfig EXCEPT
                        !.LOG_LEVEL = upper(getenv(envLogLevel, T_INFO))]
       IN  /\ configLogLevel' = config.LOG_LEVEL
           /\ loggerLevel' = dictConfig(config)
    /\ UNCHANGED <<envLogLevel, calls, stdout, cfgVars, mainVars, reqVars>>

\* a component calls logger.debug / info / warning / error
LoggerCall ==
    /\ loggerLevel # NotConfigured
    /\ Len(calls) < MaxCalls
    /\ \E level \in LevelNames :
         /\ calls' = Append(calls, level)
         /\ stdout' = emit(stdout, level, loggerLevel, "m")
    /\ UNCHANGED <<envLogLevel, configLogLevel, loggerLevel, cfgVars, mainVars, reqVars>>

----------------------------------------------------------------------------
\* src/main.py

SIGINT == 2
SIGTERM == 15
Signals == {SIGINT, SIGTERM}
Running == <<>>

\* the level the process-wide logger has once logger.py has been imported
ProcessLoggerLevel == dictConfig(LogConfig)

\* logger.info(msg) of the running process
info(out, msg) == emit(out, T_INFO, ProcessLoggerLevel, msg)

\* exit status sys.exit is called with in signal_handler, main.py:25
HandlerExitStatus == 0

\* exit status of a process ended by a signal left at its default disposition
KilledBy(sig) == 0 - sig

\* the main thread runs program code: the process lives and no signal
\* handler is on the stack
MainThreadFree == exitCode = Running /\ sigFrames = <<>>

\* signal.signal(signal.SIGTERM, signal_handler), main.py:28
RegisterSIGTERM ==
    /\ MainThreadFree
    /\ mainPc = "l28"
    /\ handlers' = [handlers EXCEPT ![SIGTERM] = "signal_handler"]
    /\ mainPc' = "l29"
    /\ UNCHANGED <<sigFrames, signals, exitCode, stdout, cfgVars, logVars, reqVars>>

\* signal.signal(signal.SIGINT, signal_handler), main.py:29
RegisterSIGINT ==
    /\ MainThreadFree
    /\ mainPc = "l29"
    /\ handlers' = [handlers EXCEPT ![SIGINT] = "signal_handler"]
    /\ mainPc' = "l35"
    /\ UNCHANGED <<sigFrames, signals, exitCode, stdout, cfgVars, logVars, reqVars>>

\* logger.info({"message": "Server started successfully", ...}), main.py:31-40
LogServerStarted ==
    /\ MainThreadFree
    /\ mainPc = "l35"
    /\ stdout' = info(stdout, [message |-> "Server started successfully"])
    /\ mainPc' = "l42"
    /\ UNCHANGED <<handlers, sigFrames, signals, exitCode, cfgVars, logVars, reqVars>>

\* uvicorn.run(...), main.py:42-48, entering the lifespan hook, main.py:14-17
UvicornRun ==
    /\ MainThreadFree
    /\ mainPc = "l42"
    /\ stdout' = info(stdout, [message |-> "Starting up..."])
    /\ mainPc' = "serving"
    /\ UNCHANGED <<handlers, sigFrames, signals, exitCode, cfgVars, logVars, reqVars>>

\* The operating system delivers SIGINT or SIGTERM.  A registered handler is
\* entered on top of whatever the main thread was doing (another handler
\* included); the default disposition ends the process.
Deliver ==
    /\ exitCode = Running
    /\ Len(signals) < MaxSignals
    /\ \E sig \in Signals :
         /\ signals' = Append(signals, [sig |-> sig, disposition |-> handlers[sig],
                                        at |-> mainPc])
         /\ IF handlers[sig] = "signal_handler"
            THEN /\ sigFrames' = <<[sig |-> sig, pc |-> "l24"]>> \o sigFrames
                 /\ UNCHANGED <<exitCode, mainPc>>
            ELSE /\ exitCode' = <<KilledBy(sig)>>
                 /\ mainPc' = "exited"
                 /\ UNCHANGED sigFrames
    /\ UNCHANGED <<handlers, stdout, cfgVars, logVars, reqVars>>

\* signal_handler with the logging call left out
HandlerLogSkipped ==
    /\ exitCode = Running
    /\ sigFrames # <<>>
    /\ Head(sigFrames).pc = "l24"
    /\ sigFrames' = <<[Head(sigFrames) EXCEPT !.pc = "l25"]>> \o Tail(sigFrames)
    /\ UNCHANGED <<stdout, mainPc, handlers, signals, exitCode, cfgVars, logVars, reqVars>>

\* signal_handler: logger.info(f"Received signal {sig}"), main.py:24
HandlerLog ==
    /\ exitCode = Running
    /\ sigFrames # <<>>
    /\ Head(sigFrames).pc = "l24"
    /\ stdout' = info(stdout, [message |-> "Received signal", sig |-> Head(sigFrames).sig])
    /\ sigFrames' = <<[Head(sigFrames) EXCEPT !.pc = "l25"]>> \o Tail(sigFrames)
    /\ UNCHANGED <<mainPc, handlers, signals, exitCode, cfgVars, logVars, reqVars>>

\* signal_handler: sys.exit(0), main.py:25; SystemExit unwinds every frame
HandlerExit ==
    /\ exitCode = Running
    /\ sigFrames # <<>>
    /\ Head(sigFrames).pc = "l25"
    /\ exitCode' = <<HandlerExitStatus>>
    /\ mainPc' = "exited"
    /\ sigFrames' = <<>>
    /\ UNCHANGED <<handlers, signals, stdout, cfgVars, logVars, reqVars>>

----------------------------------------------------------------------------
\* src/api/routes/root.py, src/api/routes/health.py, src/api/app.py

VERSION == <<"0", ".", "1", ".", "0">>

\* root(), root.py:7-12
root == [message |-> "Welcome to alya.io", version |-> VERSION]

\* get_uptime(), health.py:15-26: statOk says whether os.stat of the
\* /proc entry succeeds, st_mtime is what it reports
get_uptime(statOk, st_mtime, now) ==
    IF statOk THEN now - st_mtime ELSE 0

\* health_check(), health.py:7-13
health_check(statOk, st_mtime, now) ==
    [status |-> "healthy", timestamp |-> now,
     uptime |-> get_uptime(statOk, st_mtime, now)]

\* not_found_handler, app.py:31-39
not_found_handler ==
    [kind |-> "response", status |-> 404,
     body |-> [error |-> "Not Found",
               message |-> "The requested resource was not found"],
     headers |-> {}, error |-> ""]

OpenApiPath == "/api/v1/openapi.json"
Paths == {"/", "/health", "/does-not-exist", OpenApiPath}

JSONResponse(status, body) ==
    [kind |-> "response", status |-> status, body |-> body, headers |-> {},
     error |-> ""]

Raised(error) ==
    [kind |-> "raise", status |-> 0, body |-> [none |-> TRUE], headers |-> {},
     error |-> error]

NoOutcome ==
    [kind |-> "none", status |-> 0, body |-> [none |-> TRUE], headers |-> {},
     error |-> ""]

\* What call_next(request) produces: the routes registered in create_app
\* (app.py:28-29), the 404 handler for an unmatched path (app.py:31-39), and
\* the framework's schema route (app.py:14), whose handler is not code of
\* this repository and either answers or raises.
Downstream(path, statOk, st_mtime, now, schemaFails) ==
    CASE path = "/" -> JSONResponse(200, root)
      [] path = "/health" -> JSONResponse(200, health_check(statOk, st_mtime, now))
      [] path = OpenApiPath ->
            IF schemaFails THEN Raised("RuntimeError")
            ELSE JSONResponse(200, [openapi |-> "schema"])
      [] OTHER -> not_found_handler

----------------------------------------------------------------------------
\* src/api/middleware/logging.py

BaseUrl == "http://testserver"
NoHeader == "<None>"

\* request headers a client may send: name (lower case) and value
HeaderSets ==
    {{}, {<<"user-agent", "curl/8.0">>},
     {<<"user-agent", "Mozilla/5.0">>, <<"user_agent", "probe">>}}

\* Headers.get(key): the value stored under key, None when there is none
HeadersGet(h, key) ==
    IF \E p \in h : p[1] = key
    THEN (CHOOSE p \in h : p[1] = key)[2]
    ELSE NoHeader

\* response.headers[key] = value
SetHeader(h, key, value) == {p \in h : p[1] # key} \cup {<<key, value>>}

\* the key looked up for the user agent, logging.py:16
UserAgentKey == "user_agent"

\* names bound while dispatch runs: its parameters and locals, and the
\* globals of the module (logging.py:1-5, 7)
DispatchNames ==
    {"self", "request", "call_next", "request_id", "start_time", "response",
     "process_time", "time", "uuid4", "Request", "BaseHTTPMiddleware", "logger",
     "LoggingMiddleware"}

\* attributes of the objects dispatch holds
Attributes(name) ==
    CASE name = "request" -> {"method", "url", "headers"}
      [] name = "response" -> {"status_code", "headers"}
      [] OTHER -> {}

\* the name whose .url the completion entry reads, logging.py:27
CompletionUrlName == "reuqest"
\* the name whose .status_code the completion entry reads, logging.py:28
CompletionStatusName == "request"

\* identifiers uuid4 can return
UUIDs == 1..MaxRequests

\* uuid4(): an identifier not returned before; identifiers are compared for
\* equality only, so the least unused one stands for any fresh one
uuid4(used) == CHOOSE id \in UUIDs \ used : \A j \in UUIDs \ used : id <= j

\* a dispatch call: pc is its position, response what call_next produced,
\* outcome what left dispatch, during the requests in flight when it began
EmptyReq ==
    [pc |-> "new", method |-> "", path |-> "", headers |-> {}, request_id |-> 0,
     start_time |-> 0, during |-> {}, response |-> NoOutcome,
     outcome |-> NoOutcome]

Serving == MainThreadFree /\ mainPc = "serving"

\* the requests whose dispatch is suspended at the await
InFlight == {x \in 1..MaxRequests : req[x].pc \in {"call_next", "resume"}}

\* dispatch, logging.py:9-20: up to the await of call_next, for a request
\* whose path and headers are drawn from the given sets
DispatchBeginOn(r, paths, headerSets) ==
    /\ Serving
    /\ req[r].pc = "new"
    /\ IF r = 1 THEN TRUE ELSE req[r - 1].pc # "new"
    /\ issued # UUIDs
    /\ \E path \in paths, h \in headerSets :
       LET id == uuid4(issued) IN
         /\ issued' = issued \cup {id}
         /\ req' = [req EXCEPT ![r] =
                [@ EXCEPT !.pc = "call_next", !.method = "GET", !.path = path,
                          !.headers = h, !.request_id = id, !.start_time = clock,
                          !.during = InFlight]]
         /\ stdout' = info(stdout,
                [request_id |-> id, method |-> "GET", url |-> <<BaseUrl, path>>,
                 user_agent |-> HeadersGet(h, UserAgentKey),
                 message |-> "Incomfing request"])
    /\ UNCHANGED <<clock, cfgVars, logVars, mainVars>>

DispatchBegin(r) == DispatchBeginOn(r, Paths, HeaderSets)

\* the awaited call_next(request) runs the rest of the stack; time passes
CallNext(r) ==
    /\ Serving
    /\ req[r].pc = "call_next"
    /\ \E now \in clock..MaxTime, statOk \in BOOLEAN, schemaFails \in BOOLEAN :
         /\ clock' = now
         /\ req' = [req EXCEPT ![r] =
                [@ EXCEPT !.pc = "resume",
                          !.response = Downstream(req[r].path, statOk, 0, now,
                                                  schemaFails)]]
    /\ UNCHANGED <<issued, stdout, cfgVars, logVars, mainVars>>

\* the completion entry, logging.py:24-31: the mapping is built key by key,
\* and a name or attribute that does not exist raises before anything is logged
CompletionEntry(q, process_time) ==
    IF CompletionUrlName \notin DispatchNames THEN Raised("NameError")
    ELSE IF "url" \notin Attributes(CompletionUrlName) THEN Raised("AttributeError")
    ELSE IF CompletionStatusName \notin DispatchNames THEN Raised("NameError")
    ELSE IF "status_code" \notin Attributes(CompletionStatusName)
         THEN Raised("AttributeError")
    ELSE [kind |-> "entry", status |-> q.response.status,
          body |-> [request_id |-> q.request_id, method |-> q.method,
                    url |-> <<BaseUrl, q.path>>,
                    status_code |-> q.response.status,
                    process_time |-> <<"%.3f", process_time>>,
                    message |-> "Request Completed"],
          headers |-> {}, error |-> ""]

\* dispatch, logging.py:20-36: from the return of call_next to the end
DispatchEnd(r) ==
    /\ Serving
    /\ req[r].pc = "resume"
    /\ LET q == req[r]
           process_time == clock - q.start_time
           entry == CompletionEntry(q, process_time)
       IN  IF q.response.kind = "raise"
           THEN \* the await raises: the error leaves dispatch as it is
                /\ req' = [req EXCEPT ![r] = [@ EXCEPT !.pc = "done",
                                                       !.outcome = q.response]]
                /\ UNCHANGED stdout
           ELSE IF entry.kind = "raise"
           THEN /\ req' = [req EXCEPT ![r] = [@ EXCEPT !.pc = "done",
                                                       !.outcome = entry]]
                /\ UNCHANGED stdout
           ELSE /\ stdout' = info(stdout, entry.body)
                /\ req' = [req EXCEPT ![r] = [@ EXCEPT !.pc = "done",
                      !.outcome = [q.response EXCEPT !.headers =
                          SetHeader(SetHeader(@, "X-Request-ID", <<"str", q.request_id>>),
                                    "X-Process-Time", <<"str", process_time>>)]]]
    /\ UNCHANGED <<issued, clock, cfgVars, logVars, mainVars>>

----------------------------------------------------------------------------
\* Specifications

\* the parts of the process a specification does not exercise
ConfigLoaded ==
    /\ cfgPc = "loaded"
    /\ envCors = Unset
    /\ validatorOut = Unset
    /\ corsOrigins = DefaultCorsOrigins

LoggerReady ==
    /\ envLogLevel = Unset
    /\ configLogLevel = T_INFO
    /\ loggerLevel = ProcessLoggerLevel
    /\ calls = <<>>

MainNotStarted ==
    /\ mainPc = "l28"
    /\ handlers = [sig \in Signals |-> "default"]
    /\ sigFrames = <<>>
    /\ signals = <<>>
    /\ exitCode = Running

NoRequests ==
    /\ req = [r \in 1..MaxRequests |-> EmptyReq]
    /\ issued = {}
    /\ clock = 0

\* python -m src.main: the imports are done, the __main__ block starts
Init ==
    /\ ConfigLoaded
    /\ LoggerReady
    /\ stdout = <<>>
    /\ MainNotStarted
    /\ NoRequests

Next ==
    \/ RegisterSIGTERM
    \/ RegisterSIGINT
    \/ LogServerStarted
    \/ UvicornRun
    \/ Deliver
    \/ HandlerLog
    \/ HandlerExit
    \/ \E r \in 1..MaxRequests : DispatchBegin(r)
    \/ \E r \in 1..MaxRequests : CallNext(r)
    \/ \E r \in 1..MaxRequests : DispatchEnd(r)

Spec == Init /\ [][Next]_vars

\* The process under signals: the same program, its requests limited to one
\* path and one set of headers (signal_handler reads nothing of a request)
NextSignals ==
    \/ RegisterSIGTERM
    \/ RegisterSIGINT
    \/ LogServerStarted
    \/ UvicornRun
    \/ Deliver
    \/ HandlerLog
    \/ HandlerExit
    \/ \E r \in 1..MaxRequests : DispatchBeginOn(r, {"/"}, {{}})
    \/ \E r \in 1..MaxRequests : CallNext(r)
    \/ \E r \in 1..MaxRequests : DispatchEnd(r)

\* a signal handler that was entered runs to its end
SpecSignals ==
    Init /\ [][NextSignals]_vars /\ WF_vars(HandlerLog) /\ WF_vars(HandlerExit)

\* import of src.core.config with every raw value of BACKEND_CORS_ORIGINS
InitConfig ==
    /\ ConfigInit
    /\ LoggerReady
    /\ stdout = <<>>
    /\ MainNotStarted
    /\ NoRequests

NextConfig == SettingsLoad

SpecConfig == InitConfig /\ [][NextConfig]_vars

\* import of src.utils.logger with every value of LOG_LEVEL
InitLogger ==
    /\ ConfigLoaded
    /\ envLogLevel \in LogLevelEnvValues \cup {Unset}
    /\ configLogLevel = NotConfigured
    /\ loggerLevel = NotConfigured
    /\ calls = <<>>
    /\ stdout = <<>>
    /\ MainNotStarted
    /\ NoRequests

NextLogger ==
    \/ setup_logging
    \/ LoggerCall

SpecLogger == InitLogger /\ [][NextLogger]_vars

----------------------------------------------------------------------------
\* Claims about LoggingMiddleware.dispatch and the assembled application

Slots == 1..MaxRequests

\* the entries on standard output that carry the identifier id
EntriesOf(id) ==
    SelectSeq(stdout, LAMBDA e : "request_id" \in DOMAIN e.message
                                  /\ e.message.request_id = id)

HeaderNames(h) == {p[1] : p \in h}

\* the downstream handler of request r returned a response
Answered(r) == req[r].pc = "done" /\ req[r].response.kind = "response"

\* C1: every request that passes through dispatch and whose downstream
\* handler returns a response leaves the middleware as a response carrying
\* X-Request-ID equal to the identifier generated for it and X-Process-Time
\* holding the elapsed seconds as text.
C1_ResponseCarriesBothHeaders ==
    \A r \in Slots : Answered(r) =>
        /\ req[r].outcome.kind = "response"
        /\ <<"X-Request-ID", <<"str", req[r].request_id>>>> \in req[r].outcome.headers
        /\ \E t \in 0..MaxTime :
              <<"X-Process-Time", <<"str", t>>>> \in req[r].outcome.headers

\* C2: a request whose downstream handler completes normally has exactly two
\* log entries: the arrival entry, written before the downstream handler is
\* called, and the completion entry with the status code and the elapsed
\* time, written before the response is returned.
C2_ExactlyTwoLogEntries ==
    \A r \in Slots :
        /\ req[r].pc \in {"call_next", "resume"} =>
              /\ Len(EntriesOf(req[r].request_id)) = 1
              /\ EntriesOf(req[r].request_id)[1].message.message = "Incomfing request"
        /\ Answered(r) =>
              /\ Len(EntriesOf(req[r].request_id)) = 2
              /\ EntriesOf(req[r].request_id)[1].message.message = "Incomfing request"
              /\ EntriesOf(req[r].request_id)[2].message.message = "Request Completed"
              /\ EntriesOf(req[r].request_id)[2].message.status_code
                    = req[r].response.status

\* C3: two requests handled concurrently each receive their own
\* X-Request-ID, the two values differ, and neither the response nor the log
\* entries of one carry the identifier of the other.
C3_ConcurrentRequestsDistinctIds ==
    \A r1 \in Slots, r2 \in Slots :
        (/\ r1 # r2
         /\ r1 \in req[r2].during
         /\ Answered(r1)
         /\ Answered(r2)) =>
            /\ req[r1].request_id # req[r2].request_id
            /\ \A r \in {r1, r2} :
                  /\ req[r].outcome.kind = "response"
                  /\ {p[2] : p \in {q \in req[r].outcome.headers : q[1] = "X-Request-ID"}}
                        = {<<"str", req[r].request_id>>}
                  /\ \A i \in DOMAIN EntriesOf(req[r].request_id) :
                        EntriesOf(req[r].request_id)[i].message.url
                            = <<BaseUrl, req[r].path>>

\* C5: a request for a path that matches no registered route is answered
\* with status 404 and the body of not_found_handler, and that response is
\* what leaves the installed middleware.
C5_UnmatchedPathAnswered404 ==
    \A r \in Slots :
        (req[r].pc = "done" /\ req[r].path = "/does-not-exist") =>
            /\ req[r].outcome.kind = "response"
            /\ req[r].outcome.status = 404
            /\ req[r].outcome.body =
                  [error |-> "Not Found",
                   message |-> "The requested resource was not found"]

\* C7: GET /health through the assembled application always answers 200
\* with a body of exactly the keys status ("healthy"), timestamp and uptime,
\* with uptime 0.0 when the process-start metadata cannot be read: the
\* endpoint has no failure outcome.
C7_HealthAlways200 ==
    \A r \in Slots :
        (req[r].pc = "done" /\ req[r].path = "/health") =>
            /\ req[r].outcome.kind = "response"
            /\ req[r].outcome.status = 200
            /\ DOMAIN req[r].outcome.body = {"status", "timestamp", "uptime"}
            /\ req[r].outcome.body.status = "healthy"

\* C8: an error raised by the downstream handler leaves dispatch unchanged
\* and no response is returned; and the only errors that leave dispatch are
\* errors the downstream handler raised.
C8_OnlyDownstreamErrorsLeaveDispatch ==
    \A r \in Slots : req[r].pc = "done" =>
        /\ req[r].response.kind = "raise" => req[r].outcome = req[r].response
        /\ req[r].outcome.kind = "raise" => req[r].response.kind = "raise"

\* C10: the arrival entry records the method, the full URL, the generated
\* identifier and, for a request that sends a User-Agent header, the value
\* of that header.
C10_ArrivalEntryHasUserAgent ==
    \A r \in Slots : req[r].pc # "new" =>
        LET e == EntriesOf(req[r].request_id)[1].message
        IN  /\ e.method = req[r].method
            /\ e.url = <<BaseUrl, req[r].path>>
            /\ e.request_id = req[r].request_id
            /\ \A p \in req[r].headers :
                  p[1] = "user-agent" => e.user_agent = p[2]

----------------------------------------------------------------------------
\* Claim about Settings.assemble_cors_origins

\* the pieces of a text, described by the positions of its commas
CommaAt(s) == {i \in 1..Len(s) : s[i] = ","}
Cuts(s) == {0} \cup CommaAt(s) \cup {Len(s) + 1}
NthCut(s, k) == CHOOSE c \in Cuts(s) : Cardinality({d \in Cuts(s) : d < c}) = k
Piece(s, k) == SubSeq(s, NthCut(s, k - 1) + 1, NthCut(s, k) - 1)
Trimmed(t) ==
    LET ns == {i \in 1..Len(t) : t[i] \notin Whitespace}
    IN  IF ns = {} THEN <<>>
        ELSE SubSeq(t, CHOOSE i \in ns : \A j \in ns : i <= j,
                       CHOOSE i \in ns : \A j \in ns : i >= j)
ExpectedOrigins(s) ==
    List([k \in 1..(Cardinality(CommaAt(s)) + 1) |-> Str(Trimmed(Piece(s, k)))])

Bracketed(v) == v.t = "str" /\ v.v # <<>> /\ v.v[1] = "["
PlainText(v) == v.t = "str" /\ ~Bracketed(v)
SequenceOfText(v) == v.t = "list" /\ \A i \in DOMAIN v.v : v.v[i].t = "str"

\* C4: the validator maps a text not beginning with '[' to its
\* comma-separated pieces, each trimmed ("a, b" becomes ["a", "b"]), passes a
\* sequence through unchanged, and every other shape fails the load, so that
\* a loaded BACKEND_CORS_ORIGINS is always a sequence of text.
C4_CorsOriginsNormalized ==
    (cfgPc # "unloaded" /\ envCors # Unset) =>
        /\ PlainText(envCors) =>
              /\ validatorOut = ExpectedOrigins(envCors.v)
              /\ cfgPc = "loaded"
              /\ corsOrigins = ExpectedOrigins(envCors.v)
        /\ envCors = Str(<<"a", ",", " ", "b">>) =>
              corsOrigins = List(<<Str(<<"a">>), Str(<<"b">>)>>)
        /\ envCors.t = "list" =>
              /\ validatorOut = envCors
              /\ SequenceOfText(envCors) => (cfgPc = "loaded" /\ corsOrigins = envCors)
        /\ (~PlainText(envCors) /\ ~SequenceOfText(envCors)) => cfgPc = "failed"
        /\ cfgPc = "loaded" => SequenceOfText(corsOrigins)

C4_Witness ==
    /\ cfgPc = "loaded"
    /\ envCors = Str(<<"a", ",", " ", "b">>)
    /\ corsOrigins = List(<<Str(<<"a">>), Str(<<"b">>)>>)

----------------------------------------------------------------------------
\* Claim about setup_logging

\* the entries a logger of the given level writes for the calls made
Written(levels, lvl) ==
    LET kept == SelectSeq(levels, LAMBDA l : LevelNo(l) >= LevelNo(lvl))
    IN  [i \in 1..Len(kept) |-> [levelname |-> kept[i], message |-> "m"]]

\* C9: the minimum level of the logger built by setup_logging is the
\* upper-cased LOG_LEVEL, INFO when it is unset: entries below it are
\* dropped, entries at or above it are written.
C9_LoggerLevelFollowsEnv ==
    loggerLevel # NotConfigured =>
        LET want == IF envLogLevel = Unset THEN T_INFO ELSE upper(envLogLevel.v)
        IN  /\ loggerLevel = want
            /\ stdout = Written(calls, want)

----------------------------------------------------------------------------
\* Claim about signal_handler

\* the signal found both handlers registered (main.py:28-29 have run)
AfterRegistration(s) == s.at \in {"l35", "l42", "serving"}

\* the "Received signal" entries on standard output
SignalEntries == SelectSeq(stdout, LAMBDA e : e.message.message = "Received signal")

NumLogged(sig) ==
    Cardinality({j \in DOMAIN SignalEntries : SignalEntries[j].message.sig = sig})
NumReceived(sig) ==
    Cardinality({i \in DOMAIN signals :
                    signals[i].sig = sig /\ signals[i].disposition = "signal_handler"})

====
